---- MODULE Spec2Model ----
(***************************************************************************)
(* CerebroEcho backend (src/main.py): the process_audio and save_email     *)
(* handlers over the process-local usage_tracker dict.                     *)
(*                                                                         *)
(* Strings are sequences of tokens, so that the f-string key               *)
(* f"{deviceId}_{userEmail}" is a real concatenation.  A handler is a      *)
(* coroutine on one event loop: it runs without interruption up to its     *)
(* only suspension point, `await actual_file.read()`, and from there to    *)
(* its end; the provider calls are synchronous.                            *)
(***************************************************************************)
EXTENDS Integers, Sequences, FiniteSets, TLC

VARIABLES
  client,         \* the module-level Groq client, or None
  usage_tracker,  \* the module-level dict: user_key -> count
  pc,             \* per handler instance: "idle", or "read" while suspended
                  \* at `await actual_file.read()`
  locals,         \* per handler instance: the handler's local variables
  resp,           \* the most recent HTTP response, with the handler's trace
  answered,       \* history: per user_key, how many process_audio requests
                  \* were answered, counted up to the first save_email call
  migrated,       \* history: save_email has been called
  overlaps        \* how often a request was suspended while another one was

vars == <<client, usage_tracker, pc, locals, resp, answered, migrated, overlaps>>

(* ---------------------------- bounds ---------------------------------- *)

\* how many times in a run a request may be suspended at its await while
\* another one already is; one more handler than that can be in flight at once
MaxOverlaps == 1
\* the history counter `answered` saturates here
MaxAnswered == 11

Procs == 1..(MaxOverlaps + 1)

(* ------------------------- program constants -------------------------- *)

AnonymousLimit == 5
EmailLimit == 10
MinAudioBytes == 1000
MinTranscriptLen == 2

None == "None"
anonymous == <<"anonymous">>

(* ------------------------------ inputs -------------------------------- *)

DeviceIds == {<<"d">>}
UserEmails == {anonymous, <<"e">>}
\* an upload field is absent, <<>>, or carries a payload of n bytes, <<n>>
Sizes == {MinAudioBytes - 1, MinAudioBytes}
NoUpload == <<>>
Uploads == {NoUpload} \cup {<<n>> : n \in Sizes}
\* what the speech-to-text service may return (response_format="text")
Transcriptions == {<<>>, <<" ", "a", " ">>, <<" ", "h", "i", " ">>}
\* message.content of the chat completion
Contents == {<<" ", "o", "k", " ">>}
\* messages of the exceptions an outbound or file-system call may raise
ExcMsgs == {"m1", "m2"}

(* ------------------------- pure helpers ------------------------------- *)

\* f"{a}_{b}"
Key(a, b) == a \o <<"_">> \o b

\* dict.get(k, default)
Get(d, k, default) == IF k \in DOMAIN d THEN d[k] ELSE default

\* d[k] = v
DictSet(d, k, v) == [x \in DOMAIN d \cup {k} |-> IF x = k THEN v ELSE d[x]]

\* del d[k]
DictDel(d, k) == [x \in DOMAIN d \ {k} |-> d[x]]

RECURSIVE LStrip(_)
LStrip(s) == IF s # <<>> /\ Head(s) = " " THEN LStrip(Tail(s)) ELSE s

RECURSIVE RStrip(_)
RStrip(s) ==
  IF s # <<>> /\ s[Len(s)] = " " THEN RStrip(SubSeq(s, 1, Len(s) - 1)) ELSE s

\* str.strip()
Strip(s) == RStrip(LStrip(s))

\* line 75: actual_file = audio or file
ActualFile(audio, file) == IF audio # NoUpload THEN audio ELSE file

\* line 82: limit = 10 if userEmail != "anonymous" else 5
Limit(userEmail) == IF userEmail # anonymous THEN EmailLimit ELSE AnonymousLimit

\* (mutant) the comparison is off by one
LimitReached_OffByOne(current_used, limit) == current_used > limit

\* line 84: if current_used >= limit
LimitReached(current_used, limit) == current_used >= limit

\* (mutant) the size threshold is off by one
TooSmall_OffByOne(n) == n < MinAudioBytes - 1

\* line 102: if len(content) < 1000
TooSmall(n) == n < MinAudioBytes

\* line 131: transcript = transcription.strip() if transcription else ""
Transcript(transcription) ==
  IF transcription # <<>> THEN Strip(transcription) ELSE <<>>

\* line 133: if not transcript or len(transcript) < 2
NoTranscript(transcript) ==
  transcript = <<>> \/ Len(transcript) < MinTranscriptLen

\* (mutant) the increment is forgotten
NextCount_NoIncrement(current_used) == current_used

\* line 172: usage_tracker[user_key] = current_used + 1
NextCount(current_used) == current_used + 1

\* str(n) of the two limits
Str(n) == IF n = AnonymousLimit THEN "5" ELSE "10"

\* (mutant) the exception's message is dropped
ErrorDetail_Generic(msg) == <<"Internal server error">>

\* line 194: detail=f"Processing error: {str(e)}"
ErrorDetail(msg) == <<"Processing error: ", msg>>

(* ----------------------------- responses ------------------------------ *)

NoLocals == [deviceId |-> <<>>, userEmail |-> <<>>, user_key |-> <<>>,
             current_used |-> 0, limit |-> 0]

NoExc == [site |-> None, msg |-> None]

\* The HTTP response of a handler together with what the handler did on the
\* way: calls = the provider calls it made, exc = the exception raised inside
\* its try block (if any), staged = it created a temp file, removed = it
\* unlinked that temp file.
Response(op, deviceId, email, has_file, size, status, body, transcript, used, calls, exc, staged, removed) ==
  [op |-> op, deviceId |-> deviceId, email |-> email, has_file |-> has_file,
   size |-> size, status |-> status, body |-> body, transcript |-> transcript,
   questions_used |-> used, calls |-> calls, exc |-> exc, staged |-> staged,
   removed |-> removed]

NoResponse ==
  Response("none", <<>>, <<>>, FALSE, 0, 0, <<>>, <<>>, 0, <<>>, NoExc, FALSE,
           FALSE)

Sat(n) == IF n > MaxAnswered THEN MaxAnswered ELSE n

(* ------------------------------- Init --------------------------------- *)

\* lines 26-38: client is the Groq client when GROQ_API_KEY is set, else None
Init ==
  /\ client \in {None, "Groq"}
  /\ usage_tracker = <<>>
  /\ pc = [p \in Procs |-> "idle"]
  /\ locals = [p \in Procs |-> NoLocals]
  /\ answered = <<>>
  /\ migrated = FALSE
  /\ resp = NoResponse
  /\ overlaps = 0

\* no handler is suspended
Idle == \A p \in Procs : pc[p] = "idle"

(* ------------------- process_audio, lines 67-99 ----------------------- *)

\* (mutant) the limit is checked before the upload
Prologue_LimitFirst(cl, actual_file, current_used, limit) ==
  IF cl = None THEN 503
  ELSE IF LimitReached(current_used, limit) THEN 403
  ELSE IF actual_file = NoUpload THEN 400
  ELSE 0

\* lines 68-91: which check of the handler's prologue rejects the request
Prologue(cl, actual_file, current_used, limit) ==
  IF cl = None THEN 503
  ELSE IF actual_file = NoUpload THEN 400
  ELSE IF LimitReached(current_used, limit) THEN 403
  ELSE 0

PrologueDetail(status, limit) ==
  CASE status = 503 -> <<"AI service unavailable - check server configuration">>
    [] status = 400 -> <<"No audio file provided">>
    [] status = 403 ->
         <<"TRIAL_LIMIT_REACHED", "Trial limit reached", Str(limit)>>

\* The handler from its entry to `await actual_file.read()`.  Handler
\* instances are interchangeable, so a new request takes the first idle one;
\* a request may be suspended beside another one MaxOverlaps times in a run.
ProcessAudioBegin(p, audio, file, deviceId, userEmail) ==
  LET actual_file == ActualFile(audio, file)
      user_key == Key(deviceId, userEmail)
      current_used == Get(usage_tracker, user_key, 0)
      limit == Limit(userEmail)
      size == IF actual_file = NoUpload THEN 0 ELSE actual_file[1]
      status == Prologue(client, actual_file, current_used, limit)
  IN
  /\ pc[p] = "idle"
  /\ \A q \in Procs : q < p => pc[q] # "idle"
  /\ IF status # 0
       THEN /\ resp' = Response("process_audio", deviceId, userEmail,
                                actual_file # NoUpload, size, status,
                                PrologueDetail(status, limit), <<>>, 0, <<>>,
                                NoExc, FALSE, FALSE)
            /\ UNCHANGED <<pc, locals, overlaps>>
       ELSE /\ Idle \/ overlaps < MaxOverlaps
            /\ overlaps' = IF Idle THEN overlaps ELSE overlaps + 1
            /\ pc' = [pc EXCEPT ![p] = "read"]
            /\ locals' = [locals EXCEPT ![p] =
                 [deviceId |-> deviceId, userEmail |-> userEmail,
                  user_key |-> user_key, current_used |-> current_used,
                  limit |-> limit]]
            /\ UNCHANGED resp
  /\ UNCHANGED <<client, usage_tracker, answered, migrated>>

(* ------------------- process_audio, lines 99-194 ---------------------- *)

\* (mutant) the question is counted before the provider calls, so that a
\* failed request is counted too
Except_Counted(l, n, site, msg, calls, staged, temp_filename_set, removed) ==
  [resp |-> Response("process_audio", l.deviceId, l.userEmail, TRUE, n,
                     500, ErrorDetail(msg), <<>>, 0, calls,
                     [site |-> site, msg |-> msg], staged,
                     removed \/ (staged /\ temp_filename_set)),
   store |-> TRUE]

\* lines 185-194: the except clause.  temp_filename is the local's value when
\* the exception was raised; the staged file is unlinked only if it is set.
Except(l, n, site, msg, calls, staged, temp_filename_set, removed) ==
  [resp |-> Response("process_audio", l.deviceId, l.userEmail, TRUE, n,
                     500, ErrorDetail(msg), <<>>, 0, calls,
                     [site |-> site, msg |-> msg], staged,
                     removed \/ (staged /\ temp_filename_set)),
   store |-> FALSE]

\* lines 104-109 and 134-139
Listening(l, n, calls, staged) ==
  [resp |-> Response("process_audio", l.deviceId, l.userEmail, TRUE, n,
                     200, <<"Listening...">>, <<>>, l.current_used, calls,
                     NoExc, staged, staged),
   store |-> FALSE]

\* lines 171-183
Answered(l, n, transcript, content) ==
  [resp |-> Response("process_audio", l.deviceId, l.userEmail, TRUE, n,
                     200, Strip(content), transcript,
                     NextCount(l.current_used),
                     <<"transcription", "chat">>, NoExc, TRUE, TRUE),
   store |-> TRUE]

\* What the calls the handler makes after the await may do:
\*   rd  the read returns ("ok") or raises ("raise")
\*   n   len(content), the size of the upload
\*   st  NamedTemporaryFile/write: "ok", raises before the file exists
\*       ("create"), or raises in write, after the file was created ("write")
\*   tr  the transcription call returns text tr ("ok") or raises ("raise")
\*   ch  the completion returns message content cn ("ok"), returns content
\*       None so that content.strip() raises ("none"), or raises ("raise")
\* A field is left at a fixed value on the paths that never read it.
Out(rd, n, st, trk, tr, chk, cn, msg) ==
  [rd |-> rd, n |-> n, st |-> st, trk |-> trk, tr |-> tr, chk |-> chk,
   cn |-> cn, msg |-> msg]

Outcomes ==
  LET cn0 == CHOOSE c \in Contents : TRUE
      Big == {k \in Sizes : ~TooSmall(k)}
      Heard == {t \in Transcriptions : ~NoTranscript(Transcript(t))}
  IN
  UNION {
    {Out("raise", n, "ok", "ok", <<>>, "ok", cn0, m) :
       n \in Sizes, m \in ExcMsgs},
    {Out("ok", n, "ok", "ok", <<>>, "ok", cn0, "m1") : n \in Sizes \ Big},
    {Out("ok", n, st, "ok", <<>>, "ok", cn0, m) :
       n \in Big, st \in {"create", "write"}, m \in ExcMsgs},
    {Out("ok", n, "ok", "raise", <<>>, "ok", cn0, m) :
       n \in Big, m \in ExcMsgs},
    {Out("ok", n, "ok", "ok", tr, chk, cn0, m) :
       n \in Big, tr \in Heard, chk \in {"none", "raise"}, m \in ExcMsgs},
    {Out("ok", n, "ok", "ok", tr, "ok", cn, "m1") :
       n \in Big, tr \in Transcriptions, cn \in Contents}}

\* The handler from the completion of `await actual_file.read()` to its end
ProcessAudioRest(l, o) ==
  IF o.rd = "raise"
    THEN Except(l, o.n, "read", o.msg, <<>>, FALSE, FALSE, FALSE)
  ELSE IF TooSmall(o.n) THEN Listening(l, o.n, <<>>, FALSE)
  ELSE IF o.st = "create"
    THEN Except(l, o.n, "stage", o.msg, <<>>, FALSE, FALSE, FALSE)
  ELSE IF o.st = "write"
    THEN Except(l, o.n, "stage", o.msg, <<>>, TRUE, FALSE, FALSE)
  ELSE IF o.trk = "raise"
    THEN Except(l, o.n, "transcription", o.msg, <<"transcription">>, TRUE,
                TRUE, FALSE)
  ELSE IF NoTranscript(Transcript(o.tr))
    THEN Listening(l, o.n, <<"transcription">>, TRUE)
  ELSE IF o.chk # "ok"
    THEN Except(l, o.n, "chat", o.msg, <<"transcription", "chat">>, TRUE,
                FALSE, TRUE)
  ELSE Answered(l, o.n, Transcript(o.tr), o.cn)

ProcessAudioResume(p) ==
  /\ pc[p] = "read"
  /\ \E o \in Outcomes :
       LET l == locals[p]
           out == ProcessAudioRest(l, o)
       IN
       /\ resp' = out.resp
       /\ usage_tracker' =
            IF out.store
              THEN DictSet(usage_tracker, l.user_key, NextCount(l.current_used))
              ELSE usage_tracker
       /\ answered' =
            IF out.store /\ ~migrated
              THEN DictSet(answered, l.user_key,
                           Sat(Get(answered, l.user_key, 0) + 1))
              ELSE answered
  /\ pc' = [pc EXCEPT ![p] = "idle"]
  /\ locals' = [locals EXCEPT ![p] = NoLocals]
  /\ UNCHANGED <<client, migrated, overlaps>>

(* ----------------------- save_email, lines 196-208 -------------------- *)

\* (mutant) the anonymous count is added to the email key's count
SaveEmailTracker_Merge(tracker, device_id, email) ==
  LET old_key == Key(device_id, anonymous)
      new_key == Key(device_id, email)
  IN IF old_key \in DOMAIN tracker
       THEN DictDel(DictSet(tracker, new_key,
                            Get(tracker, new_key, 0) + tracker[old_key]),
                    old_key)
       ELSE tracker

\* lines 200-205: the tracker after save_email
SaveEmailTracker(tracker, device_id, email) ==
  LET old_key == Key(device_id, anonymous)
      new_key == Key(device_id, email)
  IN IF old_key \in DOMAIN tracker
       THEN DictDel(DictSet(tracker, new_key, tracker[old_key]), old_key)
       ELSE tracker

SaveEmail(device_id, email) ==
  /\ usage_tracker' = SaveEmailTracker(usage_tracker, device_id, email)
  /\ answered' = <<>>
  /\ migrated' = TRUE
  /\ resp' = Response("save_email", device_id, email, FALSE, 0, 200,
                      <<"Trial extended to 10 questions">>, <<>>, 0, <<>>,
                      NoExc, FALSE, FALSE)
  /\ UNCHANGED <<client, pc, locals, overlaps>>

(* ------------------------- specifications ----------------------------- *)

\* any interleaving of the handlers on the event loop
Next ==
  \/ \E p \in Procs, audio \in Uploads, file \in Uploads,
        deviceId \in DeviceIds, userEmail \in UserEmails :
       ProcessAudioBegin(p, audio, file, deviceId, userEmail)
  \/ \E p \in Procs : ProcessAudioResume(p)
  \/ \E device_id \in DeviceIds, email \in UserEmails :
       SaveEmail(device_id, email)

Spec == Init /\ [][Next]_vars

\* one request at a time: a handler runs to its end before the next starts
NextSeq ==
  \/ \E audio \in Uploads, file \in Uploads,
        deviceId \in DeviceIds, userEmail \in UserEmails :
       Idle /\ ProcessAudioBegin(1, audio, file, deviceId, userEmail)
  \/ ProcessAudioResume(1)
  \/ \E device_id \in DeviceIds, email \in UserEmails :
       Idle /\ SaveEmail(device_id, email)

SpecSeq == Init /\ [][NextSeq]_vars

(* ------------------------- reading a step ----------------------------- *)

\* handler instance p runs from its await to its end in this step
Finishes(p) == pc[p] = "read" /\ pc'[p] = "idle"

\* a process_audio request is turned away by the handler's prologue
Rejects == pc' = pc /\ resp' # resp /\ resp'.op = "process_audio"

\* a save_email call that changes anything
SavesEmail == pc' = pc /\ resp'.op = "save_email"

\* the step returns the response of a process_audio request
Responds == Rejects \/ \E p \in Procs : Finishes(p)

\* the key of the request answered by response r
KeyOf(r) == Key(r.deviceId, r.email)

\* the limit of a request with this userEmail, as the claims state it
N(email) == IF email = anonymous THEN 5 ELSE 10

IsListening(r) == r.status = 200 /\ r.body = <<"Listening...">>
IsAnswer(r) == r.status = 200 /\ r.body # <<"Listening...">>
IsLimitReached(r) == r.status = 403 /\ r.body[1] = "TRIAL_LIMIT_REACHED"

(* ------------------------------ C1 ------------------------------------ *)

\* C1 as stated: in a sequential run without save_email, once N requests for
\* a key have been answered (N = 5 for "anonymous", 10 otherwise), every
\* further process_audio request for that key gets 403 TRIAL_LIMIT_REACHED.
C1_EveryRequestRejected ==
  [][(Responds /\ Get(answered, KeyOf(resp'), 0) >= N(resp'.email))
       => IsLimitReached(resp')]_vars

\* C1: in a sequential run without save_email, once N requests for a key have
\* been answered (N = 5 for "anonymous", 10 otherwise), every further
\* process_audio request for that key that carries an upload gets
\* 403 TRIAL_LIMIT_REACHED.
C1_UploadRejectedAtLimit ==
  [][(Responds /\ resp'.has_file
        /\ Get(answered, KeyOf(resp'), 0) >= N(resp'.email))
       => IsLimitReached(resp')]_vars

\* the 11th request of an email key is turned away after 10 answered ones
C1_Witness ==
  /\ IsLimitReached(resp)
  /\ resp.email # anonymous
  /\ ~migrated
  /\ Get(answered, KeyOf(resp), 0) = 10

(* ------------------------------ C2 ------------------------------------ *)

\* C2: save_email(deviceId, email) moves the count of deviceId_anonymous to
\* deviceId_email and removes deviceId_anonymous, and a second identical call
\* right after it leaves usage_tracker alone, for every email, "anonymous"
\* included.
C2_SaveEmailMoves ==
  [][SavesEmail =>
       LET old_key == Key(resp'.deviceId, anonymous)
           new_key == Key(resp'.deviceId, resp'.email)
       IN /\ old_key \in DOMAIN usage_tracker =>
               /\ new_key \in DOMAIN usage_tracker'
               /\ usage_tracker'[new_key] = usage_tracker[old_key]
               /\ old_key \notin DOMAIN usage_tracker'
          /\ resp' = resp => usage_tracker' = usage_tracker]_vars

(* ------------------------------ C3 ------------------------------------ *)

\* C3 as stated: every process_audio request whose upload is smaller than
\* 1000 bytes gets the "Listening..." placeholder, with no increment of the
\* usage counter and no transcription call, whatever the key's count and
\* whether or not the client is configured.
C3_TinyAlwaysListening ==
  [][(Responds /\ resp'.has_file /\ resp'.size < 1000)
       => /\ IsListening(resp')
          /\ resp'.calls = <<>>
          /\ usage_tracker' = usage_tracker]_vars

\* C3: a process_audio request whose upload is smaller than 1000 bytes never
\* increments the usage counter and never reaches the transcription service;
\* it gets 503 when the client is not configured, 403 when its key is at the
\* limit, and otherwise, unless reading the upload raises, the "Listening..."
\* placeholder with questions_used = the count read.
C3_TinyAudio ==
  [][(Responds /\ resp'.has_file /\ resp'.size < 1000)
       => /\ resp'.calls = <<>>
          /\ usage_tracker' = usage_tracker
          /\ Rejects =>
               /\ resp'.status = IF client = None THEN 503 ELSE 403
               /\ resp'.status = 403 =>
                    Get(usage_tracker, KeyOf(resp'), 0) >= N(resp'.email)
          /\ \A p \in Procs : Finishes(p) =>
               /\ client # None
               /\ locals[p].current_used < N(resp'.email)
               /\ IF resp'.exc.site = "read"
                    THEN resp'.status = 500
                    ELSE /\ IsListening(resp')
                         /\ resp'.questions_used = locals[p].current_used]_vars

\* a 999-byte upload got the placeholder, on a key that has been used before
C3_Witness ==
  /\ IsListening(resp)
  /\ resp.size = 999
  /\ resp.calls = <<>>
  /\ resp.questions_used = 2
  /\ Get(usage_tracker, KeyOf(resp), 0) = 2

(* ------------------------------ C4 ------------------------------------ *)

\* C4 as stated: a process_audio request with neither `audio` nor `file`
\* always gets a 400, client configured or not, key under or at its limit.
C4_NoFileAlways400 ==
  (resp.op = "process_audio" /\ ~resp.has_file) => resp.status = 400

\* C4: a process_audio request with neither `audio` nor `file` gets a 400
\* whenever the client is configured, key under or at its limit; when the
\* client is not configured it gets a 503.
C4_NoFile ==
  (resp.op = "process_audio" /\ ~resp.has_file) =>
    resp.status = IF client = None THEN 503 ELSE 400

\* a request without upload got its 400 while its key was at the limit
C4_Witness ==
  /\ resp.op = "process_audio"
  /\ ~resp.has_file
  /\ resp.status = 400
  /\ Get(usage_tracker, KeyOf(resp), 0) = N(resp.email)

(* ------------------------------ C5 ------------------------------------ *)

\* C5: the number of answered requests of a key exceeds the key's limit only
\* in runs where one request was suspended at its await while another one
\* was (and in such a run it can: C5_Witness).
C5_OvershootNeedsRace ==
  \A d \in DeviceIds, e \in UserEmails :
    Get(answered, Key(d, e), 0) > N(e) => overlaps > 0

\* two requests read count = limit - 1, both were answered: the tracker says
\* limit, and limit + 1 requests have been answered
C5_Witness ==
  /\ IsAnswer(resp)
  /\ resp.questions_used = N(resp.email)
  /\ Get(usage_tracker, KeyOf(resp), 0) = N(resp.email)
  /\ Get(answered, KeyOf(resp), 0) = N(resp.email) + 1
  /\ Idle

(* ------------------------------ C6 ------------------------------------ *)

\* C6: on every path out of process_audio that created a temp file, the temp
\* file no longer exists when the handler returns or raises.
C6_TempFileRemoved == resp.staged => resp.removed

(* ------------------------------ C7 ------------------------------------ *)

\* C7: an exception raised by the transcription call or by the chat
\* completion is answered with a 500 whose detail carries the exception's
\* message, and the failure stays in that request: the handler instance is
\* free again and the rest of the server state is as it was.
C7_ProviderErrorConfined ==
  [][\A p \in Procs :
       (Finishes(p) /\ resp'.exc.site \in {"transcription", "chat"}) =>
         /\ resp'.status = 500
         /\ resp'.body = <<"Processing error: ", resp'.exc.msg>>
         /\ usage_tracker' = usage_tracker
         /\ client' = client
         /\ locals'[p] = NoLocals
         /\ \A q \in Procs \ {p} : pc'[q] = pc[q] /\ locals'[q] = locals[q]]_vars

\* the chat completion raised "m2" in a request that ran beside another one
C7_Witness ==
  /\ resp.status = 500
  /\ resp.exc = [site |-> "chat", msg |-> "m2"]
  /\ \E p \in Procs : pc[p] = "read"

(* ------------------------------ C8 ------------------------------------ *)

\* C8: process_audio writes usage_tracker only when the transcription and the
\* chat completion both returned and the transcript has at least 2
\* characters, and then it sets the request's key to the count read at the
\* request's start plus one; every other outcome leaves usage_tracker alone,
\* and a 403 rejection makes no provider call.
C8_TrackerFrame ==
  [][/\ Rejects =>
          /\ usage_tracker' = usage_tracker
          /\ resp'.status = 403 => resp'.calls = <<>>
     /\ \A p \in Procs : Finishes(p) =>
          LET k == locals[p].user_key
              c == locals[p].current_used
          IN IF resp'.calls = <<"transcription", "chat">>
                  /\ resp'.exc = NoExc
               THEN /\ IsAnswer(resp')
                    /\ Len(resp'.transcript) >= 2
                    /\ DOMAIN usage_tracker' = DOMAIN usage_tracker \cup {k}
                    /\ usage_tracker'[k] = c + 1
                    /\ \A x \in DOMAIN usage_tracker \ {k} :
                         usage_tracker'[x] = usage_tracker[x]
               ELSE /\ ~IsAnswer(resp')
                    /\ usage_tracker' = usage_tracker]_vars

\* an answered request stored the count it had read plus one although another
\* request of its key was counted in between: more answered than stored
C8_Witness ==
  /\ IsAnswer(resp)
  /\ Get(usage_tracker, KeyOf(resp), 0) = resp.questions_used
  /\ Get(answered, KeyOf(resp), 0) > resp.questions_used

(* ------------------------------ C9 ------------------------------------ *)

\* C9: every count stored in usage_tracker is an integer from 1 to 10.
C9_CountRange ==
  \A k \in DOMAIN usage_tracker :
    usage_tracker[k] \in Int /\ 1 <= usage_tracker[k] /\ usage_tracker[k] <= 10

\* the limit check of an email key was raced past: 11 answered, 10 stored
C9_Witness ==
  /\ overlaps > 0
  /\ \E d \in DeviceIds, e \in UserEmails :
       /\ Key(d, e) \in DOMAIN usage_tracker
       /\ usage_tracker[Key(d, e)] = 10
       /\ Get(answered, Key(d, e), 0) = 11

(* ------------------------------ C10 ----------------------------------- *)

\* C10: in a sequential run the count under an email-qualified key
\* deviceId_email (email not "anonymous") never decreases.
C10_EmailCountMonotone ==
  [][\A d \in DeviceIds, e \in UserEmails \ {anonymous} :
       Key(d, e) \in DOMAIN usage_tracker =>
         /\ Key(d, e) \in DOMAIN usage_tracker'
         /\ usage_tracker'[Key(d, e)] >= usage_tracker[Key(d, e)]]_vars

====
